---- MODULE Spec2Model ----
(***************************************************************************)
(* Model of substitute_config (evcouplings/utils/app.py): the substitution *)
(* of command-line parameters into a pipeline configuration.               *)
(*                                                                         *)
(* Python values are represented as follows.                               *)
(*   - None is <<>> and a present value v is <<v>> (an option).            *)
(*   - A dict is a function whose DOMAIN is its key set.                   *)
(*   - A string that the code inspects character by character (region,     *)
(*     stages, bitscores, evalues, batch keys, error messages) is a        *)
(*     sequence of one-character strings; a string that is only copied     *)
(*     or used as a dict key is a TLA+ string.                             *)
(*   - A number produced by int()/float() is a record                      *)
(*     [isfloat, neg, ip, frac]: its type, its sign, its integer part and  *)
(*     its fractional digits without trailing zeros.                       *)
(***************************************************************************)
EXTENDS Integers, Sequences, FiniteSets, TLC

VARIABLES pc, fs, kwargs, config, raised, returned, run, firstOut

vars == <<pc, fs, kwargs, config, raised, returned, run, firstOut>>

(***************************************************************************)
(* Bounds of the explored inputs.                                          *)
(***************************************************************************)
\* longest bitscores/evalues string enumerated exhaustively
MaxThrLen == 4
\* longest region string enumerated exhaustively
MaxRegionLen == 5
\* largest number of direct-mapped parameters present in one override set
MaxDirect == 2

(***************************************************************************)
(* Text primitives.                                                        *)
(***************************************************************************)
None == <<>>

Some(v) == <<v>>

Digits == {"0", "1", "2", "3", "4", "5", "6", "7", "8", "9"}

DigitVal(c) ==
    CASE c = "0" -> 0 [] c = "1" -> 1 [] c = "2" -> 2 [] c = "3" -> 3
      [] c = "4" -> 4 [] c = "5" -> 5 [] c = "6" -> 6 [] c = "7" -> 7
      [] c = "8" -> 8 [] c = "9" -> 9

DigitChar(d) ==
    CASE d = 0 -> "0" [] d = 1 -> "1" [] d = 2 -> "2" [] d = 3 -> "3"
      [] d = 4 -> "4" [] d = 5 -> "5" [] d = 6 -> "6" [] d = 7 -> "7"
      [] d = 8 -> "8" [] d = 9 -> "9"

\* dict assignment  d[k] = v
Put(d, k, v) == [x \in (DOMAIN d) \cup {k} |-> IF x = k THEN v ELSE d[x]]

\* the empty dict {}
EmptyDict == <<>>

\* s.replace(" ", "")
RemoveSpaces(s) == SelectSeq(s, LAMBDA c : c # " ")

\* index of the first sep in s at or after position i, or 0
RECURSIVE FindFrom(_, _, _)
FindFrom(s, sep, i) ==
    IF i > Len(s) THEN 0
    ELSE IF s[i] = sep THEN i
    ELSE FindFrom(s, sep, i + 1)

\* s.split(sep) for a one-character separator
RECURSIVE Split(_, _)
Split(s, sep) ==
    LET i == FindFrom(s, sep, 1)
    IN IF i = 0 THEN <<s>>
       ELSE <<SubSeq(s, 1, i - 1)>> \o Split(SubSeq(s, i + 1, Len(s)), sep)

\* whether text occurs in msg
Contains(msg, text) ==
    \E i \in 0..(Len(msg) - Len(text)) :
        SubSeq(msg, i + 1, i + Len(text)) = text

\* position of the first "{}" replacement field of a template, or 0
RECURSIVE FieldFrom(_, _)
FieldFrom(t, i) ==
    IF i + 1 > Len(t) THEN 0
    ELSE IF t[i] = "{" /\ t[i + 1] = "}" THEN i
    ELSE FieldFrom(t, i + 1)

\* template.format(arg): the first replacement field receives arg; a
\* template without a replacement field is returned as it is
Format(t, arg) ==
    LET i == FieldFrom(t, 1)
    IN IF i = 0 THEN t
       ELSE SubSeq(t, 1, i - 1) \o arg \o SubSeq(t, i + 2, Len(t))

\* all strings over alphabet A of length at most n
Strs(A, n) == UNION {[1..k -> A] : k \in 0..n}

(***************************************************************************)
(* int(), float() and str() on numbers.                                    *)
(***************************************************************************)
AllDigits(s) == \A i \in 1..Len(s) : s[i] \in Digits

RECURSIVE DigitsToNat(_)
DigitsToNat(s) ==
    IF Len(s) = 0 THEN 0
    ELSE 10 * DigitsToNat(SubSeq(s, 1, Len(s) - 1)) + DigitVal(s[Len(s)])

RECURSIVE NatToChars(_)
NatToChars(n) ==
    IF n < 10 THEN <<DigitChar(n)>>
    ELSE NatToChars(n \div 10) \o <<DigitChar(n % 10)>>

RECURSIVE StripTrailingZeros(_)
StripTrailingZeros(ds) ==
    IF Len(ds) > 0 /\ ds[Len(ds)] = 0
    THEN StripTrailingZeros(SubSeq(ds, 1, Len(ds) - 1))
    ELSE ds

RECURSIVE LeadingZeros(_)
LeadingZeros(ds) ==
    IF Len(ds) > 0 /\ ds[1] = 0 THEN 1 + LeadingZeros(Tail(ds)) ELSE 0

Num(isfloat, neg, ip, frac) ==
    [isfloat |-> isfloat, neg |-> neg, ip |-> ip, frac |-> frac]

ParseFail == [ok |-> FALSE, val |-> Num(FALSE, FALSE, 0, <<>>)]

\* the token without a leading sign, and whether the sign was "-"
Unsigned(t) == IF Len(t) > 0 /\ t[1] \in {"-", "+"} THEN Tail(t) ELSE t

Negative(t) == Len(t) > 0 /\ t[1] = "-"

\* int(t): an optional sign and at least one digit; -0 is 0
ParseInt(t) ==
    LET u == Unsigned(t)
    IN IF Len(u) > 0 /\ AllDigits(u)
       THEN [ok |-> TRUE,
             val |-> Num(FALSE, Negative(t) /\ DigitsToNat(u) # 0,
                         DigitsToNat(u), <<>>)]
       ELSE ParseFail

\* float(t) for a token with a decimal point: an optional sign, digits,
\* one point, digits, with at least one digit; the sign of zero is kept
ParseFloat(t) ==
    LET u == Unsigned(t)
        p == FindFrom(u, ".", 1)
        a == SubSeq(u, 1, p - 1)
        b == SubSeq(u, p + 1, Len(u))
    IN IF p # 0 /\ AllDigits(a) /\ AllDigits(b) /\ Len(a) + Len(b) > 0
       THEN [ok |-> TRUE,
             val |-> Num(TRUE, Negative(t), DigitsToNat(a),
                         StripTrailingZeros([i \in 1..Len(b) |-> DigitVal(b[i])]))]
       ELSE ParseFail

\* float(t) if "." in t else int(t)
Cast(t) == IF FindFrom(t, ".", 1) # 0 THEN ParseFloat(t) ELSE ParseInt(t)

\* [Cast(t) for t in T], failing when one token fails
CastAll(T) ==
    IF \A i \in 1..Len(T) : Cast(T[i]).ok
    THEN [ok |-> TRUE, vals |-> [i \in 1..Len(T) |-> Cast(T[i]).val]]
    ELSE [ok |-> FALSE, vals |-> <<>>]

DigitChars(ds) == [i \in 1..Len(ds) |-> DigitChar(ds[i])]

TwoDigits(n) == IF n < 10 THEN <<"0">> \o NatToChars(n) ELSE NatToChars(n)

\* str(t): an int prints its decimal digits; a float prints in positional
\* form with at least one fractional digit, and in exponent form when it is
\* nonzero and smaller than 1e-4 (floats of 1e16 and more, which also print
\* in exponent form, need more digits than the explored strings have)
Str(t) ==
    LET sign == IF t.neg THEN <<"-">> ELSE <<>>
        z == LeadingZeros(t.frac)
        sig == SubSeq(t.frac, z + 1, Len(t.frac))
    IN IF ~t.isfloat THEN sign \o NatToChars(t.ip)
       ELSE IF t.ip = 0 /\ Len(t.frac) > 0 /\ z >= 4
       THEN sign \o <<DigitChar(sig[1])>>
                 \o (IF Len(sig) > 1
                     THEN <<".">> \o DigitChars(Tail(sig)) ELSE <<>>)
                 \o <<"e", "-">> \o TwoDigits(z + 1)
       ELSE sign \o NatToChars(t.ip) \o <<".">>
                 \o (IF Len(t.frac) = 0 THEN <<"0">> ELSE DigitChars(t.frac))

(***************************************************************************)
(* Configurations and override sets.                                       *)
(***************************************************************************)
Chars_align == <<"a", "l", "i", "g", "n">>

Chars_couplings == <<"c", "o", "u", "p", "l", "i", "n", "g", "s">>

Half == Num(TRUE, FALSE, 0, <<5>>)

Seven == Num(FALSE, FALSE, 7, <<>>)

\* a configuration with every section populated and no batch section
BaseFull ==
    [global |-> [prefix |-> "out/p0", sequence_id |-> "P0",
                 sequence_file |-> "p0.fa", region |-> <<1, 9>>],
     align |-> [protocol |-> "standard", input_alignment |-> "",
                database |-> "uniref100", iterations |-> 5,
                seqid_filter |-> 90, minimum_sequence_coverage |-> 50,
                minimum_column_coverage |-> 70, use_bitscores |-> FALSE,
                domain_threshold |-> Half, sequence_threshold |-> Seven],
     couplings |-> [theta |-> Num(TRUE, FALSE, 0, <<8>>),
                    iterations |-> 100],
     environment |-> [queue |-> "short", time |-> 48, cores |-> 2,
                      memory |-> "8000"],
     databases |-> [uniref100 |-> "/db/u100.fa", uniref90 |-> "/db/u90.fa"],
     stages |-> <<Chars_align, Chars_couplings>>]

\* the five required sections, all empty, without stages and batch
BaseMinimal ==
    [global |-> EmptyDict, align |-> EmptyDict, couplings |-> EmptyDict,
     environment |-> EmptyDict, databases |-> EmptyDict]

\* a configuration that already has a batch section and a custom database
BaseBatch ==
    [global |-> [prefix |-> "out/p1"],
     align |-> [protocol |-> "standard", database |-> "custom",
                use_bitscores |-> TRUE,
                domain_threshold |-> Seven, sequence_threshold |-> Seven],
     couplings |-> EmptyDict,
     environment |-> EmptyDict,
     databases |-> [uniref90 |-> "/db/u90.fa", custom |-> "/old/own.fa"],
     stages |-> <<Chars_align>>,
     batch |-> Put(EmptyDict, <<"_", "b", "7">>,
                   [align |-> [domain_threshold |-> Seven,
                               sequence_threshold |-> Seven]])]

Bases == {BaseFull, BaseMinimal, BaseBatch}

\* the local variable config before line 61 binds it
Unbound == EmptyDict

ConfigPath == <<"r", "u", "n", ".", "t", "x", "t">>

\* mapping of command line parameters to config file entries
CONFIG_MAP ==
    [prefix |-> <<"global", "prefix">>,
     protein |-> <<"global", "sequence_id">>,
     seqfile |-> <<"global", "sequence_file">>,
     alignment |-> <<"align", "input_alignment">>,
     iterations |-> <<"align", "iterations">>,
     id |-> <<"align", "seqid_filter">>,
     seqcov |-> <<"align", "minimum_sequence_coverage">>,
     colcov |-> <<"align", "minimum_column_coverage">>,
     theta |-> <<"couplings", "theta">>,
     plmiter |-> <<"couplings", "iterations">>,
     queue |-> <<"environment", "queue">>,
     time |-> <<"environment", "time">>,
     cores |-> <<"environment", "cores">>,
     memory |-> <<"environment", "memory">>]

\* the parameters of the command, in declaration order
ParamOrder ==
    <<"config", "prefix", "stages", "protein", "seqfile", "alignment",
      "region", "bitscores", "evalues", "iterations", "database", "id",
      "seqcov", "colcov", "theta", "plmiter", "queue", "time", "cores",
      "memory">>

Params == {ParamOrder[i] : i \in 1..Len(ParamOrder)}

\* the override set in which every option keeps its default None
NoKw == [p \in Params |-> IF p = "config" THEN Some(ConfigPath) ELSE None]

With(kw, p, v) == [kw EXCEPT ![p] = Some(v)]

\* values tried for the direct-mapped parameters: a zero or an empty
\* string, and an ordinary value of the declared type
DirectVals ==
    [prefix |-> {"", "run1"}, protein |-> {"", "RASH_HUMAN"},
     seqfile |-> {"", "q.fa"}, alignment |-> {"", "/path/to.sto"},
     iterations |-> {0, 3}, id |-> {0, 80}, seqcov |-> {0, 60},
     colcov |-> {0, 65}, theta |-> {Num(TRUE, FALSE, 0, <<>>),
                                    Num(TRUE, FALSE, 0, <<9>>)},
     plmiter |-> {0, 50}, queue |-> {"", "long"}, time |-> {0, 12},
     cores |-> {0, 4}, memory |-> {"", "16000"}]

\* override sets with at most n direct-mapped parameters present
RECURSIVE KwDirect(_)
KwDirect(n) ==
    IF n = 0 THEN {NoKw}
    ELSE KwDirect(n - 1) \cup
         UNION {UNION {{With(kw, p, v) : v \in DirectVals[p]} :
                       p \in DOMAIN CONFIG_MAP} : kw \in KwDirect(n - 1)}

ThrAlphabet == {"0", "1", ".", ",", "-", " ", "x"}

\* longer threshold lists: equal values written differently, an int and a
\* float of the same magnitude, both zeros, padded commas, a small float
ExtraThresholds ==
    {<<"1", ",", "1", ".">>, <<"1", ".", ",", "1", ".", "0">>,
     <<"1", ".", "0", ",", "1", ".", "0", "0">>,
     <<"0", ".", ",", "-", "0", ".">>,
     <<"1", ",", "0", ".", "0", "0", "1", ",", "1", "0">>,
     <<" ", "3", " ", ",", " ", "2", "5", " ">>,
     <<".", "0", "0", "0", "0", "1", ",", "2">>,
     <<"0", "1", ",", "1", ",", "2">>}

ThrStrings == Strs(ThrAlphabet, MaxThrLen) \cup ExtraThresholds

RegionAlphabet == {"1", "2", "-", " ", "x"}

ExtraRegions ==
    {<<"2", "5", "-", "3", "4", "1">>, <<"a", "b", "c">>,
     <<"1", "-", "2", "-", "3">>, <<"x", "1", "0", "-", "2", "x">>}

RegionStrings == Strs(RegionAlphabet, MaxRegionLen) \cup ExtraRegions

\* a few threshold strings: absent, empty, one value, a list, a bad token
SmallThr ==
    {None, Some(<<>>), Some(<<"0", ".", "5">>), Some(<<"1", ",", "2">>),
     Some(<<"x">>)}

\* a few (bitscores, evalues) pairs, with one or both given
ThrPairs ==
    {<<None, None>>, <<Some(<<"0", ".", "5">>), None>>,
     <<None, Some(<<"1", ",", "x">>)>>, <<Some(<<"3", ",", "4">>), None>>,
     <<Some(<<"1">>), Some(<<"2">>)>>, <<Some(<<>>), Some(<<"x">>)>>,
     <<Some(<<"1">>), Some(<<>>)>>}

SmallRegions == {None, Some(<<"2", "-", "8">>), Some(<<"a", "b", "c">>)}

SmallStages == {None, Some(<<"a", "l", "i", "g", "n", ",", " ", "f", "o", "l", "d">>)}

SmallDatabases == {None, Some("uniref90"), Some("/tmp/my.fasta"), Some("custom")}

SetOpt(kw, p, o) == [kw EXCEPT ![p] = o]

\* the explored override sets
KwThresholds ==
    {With(NoKw, "bitscores", s) : s \in ThrStrings} \cup
    {With(NoKw, "evalues", s) : s \in ThrStrings}

KwRegions ==
    {SetOpt(SetOpt(With(NoKw, "region", r), "bitscores", t[1]),
            "evalues", t[2]) : r \in RegionStrings, t \in ThrPairs}

KwCross ==
    {SetOpt(SetOpt(SetOpt(SetOpt(SetOpt(SetOpt(SetOpt(NoKw,
        "alignment", a), "seqfile", q), "region", r), "stages", s),
        "database", d), "bitscores", b), "evalues", e) :
        a \in {None, Some("/path/to.sto")}, q \in {None, Some("q.fa")},
        r \in SmallRegions, s \in SmallStages, d \in SmallDatabases,
        b \in SmallThr, e \in SmallThr}

KwMissing ==
    {SetOpt(SetOpt(SetOpt(NoKw, "region", r), "bitscores", t[1]),
            "evalues", t[2]) : r \in SmallRegions, t \in ThrPairs}

(***************************************************************************)
(* Error values.                                                           *)
(***************************************************************************)
ResourceTemplate ==
    <<"C", "o", "n", "f", "i", "g", " ", "f", "i", "l", "e", " ",
      "d", "o", "e", "s", " ", "n", "o", "t", " ", "e", "x", "i",
      "s", "t", " ", "o", "r", " ", "i", "s", " ", "e", "m", "p",
      "t", "y", ":", " ", "{", "}">>

RegionTemplate ==
    <<"R", "e", "g", "i", "o", "n", " ", "s", "t", "r", "i", "n",
      "g", " ", "d", "o", "e", "s", " ", "n", "o", "t", " ", "h",
      "a", "v", "e", " ", "f", "o", "r", "m", "a", "t", " ", "s",
      "t", "a", "r", "t", "-", "e", "n", "d", " ", "(", "e", ".",
      "g", ".", " ", "5", "-", "1", "2", "3", ")", ":">>

ExclusiveMessage ==
    <<"C", "a", "n", " ", "n", "o", "t", " ", "s", "p", "e", "c",
      "i", "f", "y", " ", "b", "i", "t", "s", "c", "o", "r", "e",
      " ", "a", "n", "d", " ", "E", "-", "v", "a", "l", "u", "e",
      " ", "t", "h", "r", "e", "s", "h", "o", "l", "d", " ", "a",
      "t", " ", "t", "h", "e", " ", "s", "a", "m", "e", " ", "t",
      "i", "m", "e", ".">>

NumericTemplate ==
    <<"B", "i", "t", "s", "c", "o", "r", "e", "/", "E", "-", "v",
      "a", "l", "u", "e", " ", "t", "h", "r", "e", "s", "h", "o",
      "l", "d", "(", "s", ")", " ", "m", "u", "s", "t", " ", "b",
      "e", " ", "n", "u", "m", "e", "r", "i", "c", ":", " ", "{",
      "}">>

Error(type, msg) == [type |-> type, msg |-> msg]

NoError == Error("", <<>>)

Ok(c) == [ok |-> TRUE, config |-> c, error |-> NoError]

Fail(c, e) == [ok |-> FALSE, config |-> c, error |-> e]

(***************************************************************************)
(* The steps of substitute_config.                                         *)
(***************************************************************************)
\* valid_file(path): the file exists and is not empty
ValidFile(f) == f.status = "ok"

\* read_config_file(path)
ReadConfigFile(f) == f.content

\* whether a value of parameter p is false in a boolean context
Falsy(p, v) ==
    IF p \in {"iterations", "id", "seqcov", "colcov", "plmiter", "time",
              "cores"}
    THEN v = 0
    ELSE IF p = "theta" THEN v.ip = 0 /\ v.frac = <<>>
    ELSE v = ""

\* the loop body with the test "and value" in place of "is not None"
SubstituteParamTruthy(c, kw, param) ==
    IF param \in DOMAIN CONFIG_MAP /\ kw[param] # None
       /\ ~Falsy(param, kw[param][1])
    THEN LET outer == CONFIG_MAP[param][1]
             inner == CONFIG_MAP[param][2]
         IN Put(c, outer, Put(c[outer], inner, kw[param][1]))
    ELSE c

\* one iteration of the loop over kwargs.items()
SubstituteParam(c, kw, param) ==
    IF param \in DOMAIN CONFIG_MAP /\ kw[param] # None
    THEN LET outer == CONFIG_MAP[param][1]
             inner == CONFIG_MAP[param][2]
         IN Put(c, outer, Put(c[outer], inner, kw[param][1]))
    ELSE c

\* the loop over kwargs.items(), from item i on
RECURSIVE SubstituteFrom(_, _, _)
SubstituteFrom(c, kw, i) ==
    IF i > Len(ParamOrder) THEN c
    ELSE SubstituteFrom(SubstituteParam(c, kw, ParamOrder[i]), kw, i + 1)

SimpleSubstitution(c, kw) == SubstituteFrom(c, kw, 1)

\* the shortcut with an else branch that restores the default protocol
AlignmentShortcutReset(c, kw) ==
    IF kw["alignment"] # None
    THEN Put(c, "align", Put(c["align"], "protocol", "existing"))
    ELSE Put(c, "align", Put(c["align"], "protocol", "standard"))

\* the shortcut taken only when no sequence file is given
AlignmentShortcutUnlessSeqfile(c, kw) ==
    IF kw["alignment"] # None /\ kw["seqfile"] = None
    THEN Put(c, "align", Put(c["align"], "protocol", "existing"))
    ELSE c

\* if alignment is given, run the "existing" protocol
AlignmentShortcut(c, kw) ==
    IF kw["alignment"] # None
    THEN Put(c, "align", Put(c["align"], "protocol", "existing"))
    ELSE c

\* end of the run of digits of s that starts at position i
RECURSIVE DigitRunEnd(_, _)
DigitRunEnd(s, i) ==
    IF i + 1 <= Len(s) /\ s[i + 1] \in Digits
    THEN DigitRunEnd(s, i + 1)
    ELSE i

\* whether (\d+)-(\d+) matches s starting at position i
MatchesAt(s, i) ==
    /\ s[i] \in Digits
    /\ LET j == DigitRunEnd(s, i)
       IN /\ j + 2 <= Len(s)
          /\ s[j + 1] = "-"
          /\ s[j + 2] \in Digits

\* re.search("(\d+)-(\d+)", s): the leftmost match and its two groups
RegionSearch(s) ==
    LET starts == {i \in 1..Len(s) : MatchesAt(s, i)}
    IN IF starts = {} THEN [found |-> FALSE, groups |-> <<>>]
       ELSE LET i == CHOOSE k \in starts : \A m \in starts : k <= m
                j == DigitRunEnd(s, i)
            IN [found |-> TRUE,
                groups |-> <<SubSeq(s, i, j),
                             SubSeq(s, j + 2, DigitRunEnd(s, j + 2))>>]

\* subregion of protein
RegionStep(c, kw) ==
    IF kw["region"] # None
    THEN LET region == kw["region"][1]
             m == RegionSearch(region)
         IN IF m.found
            THEN Ok(Put(c, "global",
                        Put(c["global"], "region",
                            <<DigitsToNat(m.groups[1]),
                              DigitsToNat(m.groups[2])>>)))
            ELSE Fail(c, Error("InvalidParameterError",
                               Format(RegionTemplate, region)))
    ELSE Ok(c)

\* pipeline stages to run
StagesStep(c, kw) ==
    IF kw["stages"] # None
    THEN Put(c, "stages", Split(RemoveSpaces(kw["stages"][1]), ","))
    ELSE c

\* the database step that does not register a custom path
DatabaseStepNoRegister(c, kw) ==
    IF kw["database"] # None
    THEN LET db == kw["database"][1]
         IN IF db \in DOMAIN c["databases"]
            THEN Put(c, "align", Put(c["align"], "database", db))
            ELSE Put(c, "align", Put(c["align"], "database", "custom"))
    ELSE c

\* sequence alignment input database
DatabaseStep(c, kw) ==
    IF kw["database"] # None
    THEN LET db == kw["database"][1]
         IN IF db \in DOMAIN c["databases"]
            THEN Put(c, "align", Put(c["align"], "database", db))
            ELSE Put(Put(c, "align", Put(c["align"], "database", "custom")),
                     "databases", Put(c["databases"], "custom", db))
    ELSE c

\* the exclusion test on truth values: an empty string counts as not given
BothGivenTruthy(kw) ==
    /\ kw["bitscores"] # None /\ kw["evalues"] # None
    /\ kw["bitscores"][1] # <<>> /\ kw["evalues"][1] # <<>>

\* bitscore and E-value thresholds are both set
BothGiven(kw) == kw["bitscores"] # None /\ kw["evalues"] # None

\* the threshold string that is used, or None
Thresholds(kw) ==
    IF kw["bitscores"] # None THEN kw["bitscores"]
    ELSE IF kw["evalues"] # None THEN kw["evalues"]
    ELSE None

Bitscore(kw) == kw["bitscores"] # None

SubPrefix(bitscore, t) ==
    (IF bitscore THEN <<"_", "b">> ELSE <<"_", "e">>) \o Str(t)

\* the loop that fills config["batch"], from value i on
RECURSIVE BatchFrom(_, _, _, _)
BatchFrom(batch, x_cast, bitscore, i) ==
    IF i > Len(x_cast) THEN batch
    ELSE BatchFrom(Put(batch, SubPrefix(bitscore, x_cast[i]),
                       [align |-> [domain_threshold |-> x_cast[i],
                                   sequence_threshold |-> x_cast[i]]]),
                   x_cast, bitscore, i + 1)

\* the expansion that adds to an existing batch section
ApplyThresholdsKeepBatch(c, x_cast, bitscore) ==
    LET c1 == Put(c, "align", Put(c["align"], "use_bitscores", bitscore))
    IN IF Len(x_cast) = 1
       THEN Put(c1, "align",
                Put(Put(c1["align"], "domain_threshold", x_cast[1]),
                    "sequence_threshold", x_cast[1]))
       ELSE Put(c1, "batch",
                BatchFrom(IF "batch" \in DOMAIN c THEN c["batch"]
                          ELSE EmptyDict, x_cast, bitscore, 1))

\* a single threshold (single job) or an array of jobs
ApplyThresholds(c, x_cast, bitscore) ==
    LET c1 == Put(c, "align", Put(c["align"], "use_bitscores", bitscore))
    IN IF Len(x_cast) = 1
       THEN Put(c1, "align",
                Put(Put(c1["align"], "domain_threshold", x_cast[1]),
                    "sequence_threshold", x_cast[1]))
       ELSE Put(c1, "batch", BatchFrom(EmptyDict, x_cast, bitscore, 1))

\* exclusive setting, parsing and expansion of the thresholds
ThresholdsStep(c, kw) ==
    IF BothGiven(kw)
    THEN Fail(c, Error("InvalidParameterError", ExclusiveMessage))
    ELSE IF Thresholds(kw) # None
    THEN LET thresholds == Thresholds(kw)[1]
             T == Split(RemoveSpaces(thresholds), ",")
             x == CastAll(T)
         IN IF x.ok
            THEN Ok(ApplyThresholds(c, x.vals, Bitscore(kw)))
            ELSE Fail(c, Error("InvalidParameterError",
                               Format(NumericTemplate, thresholds)))
    ELSE Ok(c)

(***************************************************************************)
(* The state machine: one call of substitute_config, step by step, and a   *)
(* second call on the configuration the first one returned.                *)
(***************************************************************************)
File(status, content) == [status |-> status, content |-> content]

Init ==
    /\ pc = "load"
    /\ config = Unbound
    /\ raised = None
    /\ returned = None
    /\ run = 1
    /\ firstOut = Unbound
    /\ \/ /\ fs \in {File("ok", b) : b \in Bases}
          /\ kwargs \in KwDirect(MaxDirect) \cup KwThresholds \cup KwCross
       \/ /\ fs = File("ok", BaseFull)
          /\ kwargs \in KwRegions
       \/ /\ fs \in {File("missing", Unbound), File("empty", Unbound)}
          /\ kwargs \in KwMissing

\* lines 52-61: try to read in configuration
Load ==
    /\ pc = "load"
    /\ IF ~ValidFile(fs)
       THEN /\ raised' = Some(Error("ResourceError",
                                    Format(ResourceTemplate, kwargs["config"][1])))
            /\ pc' = "failed"
            /\ UNCHANGED config
       ELSE /\ config' = ReadConfigFile(fs)
            /\ pc' = "simple"
            /\ UNCHANGED raised
    /\ UNCHANGED <<fs, kwargs, returned, run, firstOut>>

\* lines 63-68
Simple ==
    /\ pc = "simple"
    /\ config' = SimpleSubstitution(config, kwargs)
    /\ pc' = "alignment"
    /\ UNCHANGED <<fs, kwargs, raised, returned, run, firstOut>>

\* lines 72-76
Alignment ==
    /\ pc = "alignment"
    /\ config' = AlignmentShortcut(config, kwargs)
    /\ pc' = "region"
    /\ UNCHANGED <<fs, kwargs, raised, returned, run, firstOut>>

\* lines 78-91
Region ==
    /\ pc = "region"
    /\ LET r == RegionStep(config, kwargs)
       IN IF r.ok
          THEN /\ config' = r.config
               /\ pc' = "stages"
               /\ UNCHANGED raised
          ELSE /\ raised' = Some(r.error)
               /\ pc' = "failed"
               /\ UNCHANGED config
    /\ UNCHANGED <<fs, kwargs, returned, run, firstOut>>

\* lines 93-97
Stages ==
    /\ pc = "stages"
    /\ config' = StagesStep(config, kwargs)
    /\ pc' = "database"
    /\ UNCHANGED <<fs, kwargs, raised, returned, run, firstOut>>

\* lines 99-108
Database ==
    /\ pc = "database"
    /\ config' = DatabaseStep(config, kwargs)
    /\ pc' = "thresholds"
    /\ UNCHANGED <<fs, kwargs, raised, returned, run, firstOut>>

\* lines 110-153
Threshold ==
    /\ pc = "thresholds"
    /\ LET r == ThresholdsStep(config, kwargs)
       IN IF r.ok
          THEN /\ config' = r.config
               /\ pc' = "return"
               /\ UNCHANGED raised
          ELSE /\ raised' = Some(r.error)
               /\ pc' = "failed"
               /\ UNCHANGED config
    /\ UNCHANGED <<fs, kwargs, returned, run, firstOut>>

\* line 155
Return ==
    /\ pc = "return"
    /\ returned' = Some(config)
    /\ pc' = "done"
    /\ UNCHANGED <<fs, kwargs, config, raised, run, firstOut>>

\* the engine is run again on its own output with an empty override set
Rerun ==
    /\ pc = "done"
    /\ run = 1
    /\ run' = 2
    /\ firstOut' = returned[1]
    /\ fs' = File("ok", returned[1])
    /\ kwargs' = NoKw
    /\ config' = Unbound
    /\ returned' = None
    /\ pc' = "load"
    /\ UNCHANGED raised

Next ==
    \/ Load
    \/ Simple
    \/ Alignment
    \/ Region
    \/ Stages
    \/ Database
    \/ Threshold
    \/ Return
    \/ Rerun

Spec == Init /\ [][Next]_vars

\* the configuration the current call started from
base == fs.content

TypeOK ==
    /\ pc \in {"load", "simple", "alignment", "region", "stages",
               "database", "thresholds", "return", "done", "failed"}
    /\ run \in {1, 2}
    /\ Len(raised) <= 1
    /\ Len(returned) <= 1

(***************************************************************************)
(* Properties.                                                             *)
(***************************************************************************)
Given(p) == kwargs[p] # None

\* the configuration returned by the current call
out == returned[1]

OneThreshold == Given("bitscores") # Given("evalues")

\* the values the given threshold string parses to
Parsed == CastAll(Split(RemoveSpaces(Thresholds(kwargs)[1]), ","))

ParsedValues == {Parsed.vals[i] : i \in 1..Len(Parsed.vals)}

ModeKey(v) ==
    (IF Given("bitscores") THEN <<"_", "b">> ELSE <<"_", "e">>) \o Str(v)

\* field f of section s of configuration c is present and holds v
FieldIs(c, s, f, v) == f \in DOMAIN c[s] /\ c[s][f] = v

\* field f of section s is the same in configurations a and b
SameField(a, b, s, f) ==
    /\ f \in DOMAIN a[s] <=> f \in DOMAIN b[s]
    /\ f \in DOMAIN a[s] => a[s][f] = b[s][f]

\* top-level entry s is the same in configurations a and b
SameSection(a, b, s) ==
    /\ s \in DOMAIN a <=> s \in DOMAIN b
    /\ s \in DOMAIN a => a[s] = b[s]

\* C1: when the configuration was read and both bitscores and evalues are
\* given, whatever they contain, the call never returns a configuration and
\* the failure it ends in is an InvalidParameterError.
C1_BothThresholdsFail ==
    (fs.status = "ok" /\ Given("bitscores") /\ Given("evalues")) =>
        /\ returned = None
        /\ pc \notin {"return", "done"}
        /\ pc = "failed" => raised[1].type = "InvalidParameterError"

C1_Witness ==
    /\ pc = "failed"
    /\ kwargs["bitscores"] = Some(<<>>)
    /\ kwargs["evalues"] = Some(<<"x">>)
    /\ kwargs["region"] = None
    /\ raised[1].msg = ExclusiveMessage

\* C2: when exactly one of bitscores/evalues is given and parses to two or
\* more values, the returned configuration has align.use_bitscores set by
\* the mode, and a batch section with exactly one entry per distinct parsed
\* value and no other entry, keyed _b<value> or _e<value>, each holding an
\* align overlay with both thresholds equal to the value; the base-level
\* thresholds are those of the base configuration.
C2_BatchExpansion ==
    (returned # None /\ OneThreshold /\ Parsed.ok /\ Len(Parsed.vals) >= 2) =>
        /\ FieldIs(out, "align", "use_bitscores", Given("bitscores"))
        /\ "batch" \in DOMAIN out
        /\ DOMAIN out["batch"] = {ModeKey(v) : v \in ParsedValues}
        /\ Cardinality(DOMAIN out["batch"]) = Cardinality(ParsedValues)
        /\ \A v \in ParsedValues :
               out["batch"][ModeKey(v)] =
                   [align |-> [domain_threshold |-> v,
                               sequence_threshold |-> v]]
        /\ SameField(out, base, "align", "domain_threshold")
        /\ SameField(out, base, "align", "sequence_threshold")

C2_Witness ==
    /\ pc = "done"
    /\ base = BaseBatch
    /\ kwargs["evalues"] =
           Some(<<"1", ",", "0", ".", "0", "0", "1", ",", "1", "0">>)
    /\ DOMAIN out["batch"] =
           {<<"_", "e", "1">>, <<"_", "e", "0", ".", "0", "0", "1">>,
            <<"_", "e", "1", "0">>}
    /\ out["align"]["use_bitscores"] = FALSE

\* C3: when exactly one of bitscores/evalues is given and parses to exactly
\* one value v, the returned configuration has align.use_bitscores set by
\* the mode, both align thresholds equal to v, and no batch section,
\* whatever the base configuration is.
C3_SingleThreshold ==
    (returned # None /\ OneThreshold /\ Parsed.ok /\ Len(Parsed.vals) = 1) =>
        /\ FieldIs(out, "align", "use_bitscores", Given("bitscores"))
        /\ FieldIs(out, "align", "domain_threshold", Parsed.vals[1])
        /\ FieldIs(out, "align", "sequence_threshold", Parsed.vals[1])
        /\ "batch" \notin DOMAIN out

\* the whole string is digits, a dash, digits
IsStartEnd(s) ==
    \E i \in 2..(Len(s) - 1) :
        /\ s[i] = "-"
        /\ AllDigits(SubSeq(s, 1, i - 1))
        /\ AllDigits(SubSeq(s, i + 1, Len(s)))

StartEnd(s) ==
    LET i == CHOOSE k \in 2..(Len(s) - 1) : s[k] = "-"
    IN <<DigitsToNat(SubSeq(s, 1, i - 1)),
         DigitsToNat(SubSeq(s, i + 1, Len(s)))>>

PastRegion == pc \in {"stages", "database", "thresholds", "return", "done"}

\* C4: a given region is accepted only when the whole string is digits, a
\* dash, digits, and then global.region is [start, end]; every other given
\* region string ends in an InvalidParameterError and nothing is returned.
C4_RegionGrammar ==
    (fs.status = "ok" /\ Given("region")) =>
        IF IsStartEnd(kwargs["region"][1])
        THEN /\ pc \in {"stages", "database"} =>
                 FieldIs(config, "global", "region",
                         StartEnd(kwargs["region"][1]))
             /\ returned # None =>
                 FieldIs(out, "global", "region",
                         StartEnd(kwargs["region"][1]))
        ELSE /\ ~PastRegion
             /\ returned = None
             /\ pc = "failed" => raised[1].type = "InvalidParameterError"

\* C5: every InvalidParameterError carries the offending raw input in its
\* message: the region string for a region that is not matched, both
\* threshold strings for the exclusion failure, and the whole threshold
\* string for a token that is not numeric.
C5_ErrorCarriesInput ==
    (pc = "failed" /\ raised[1].type = "InvalidParameterError") =>
        IF Given("region") /\ ~RegionSearch(kwargs["region"][1]).found
        THEN Contains(raised[1].msg, kwargs["region"][1])
        ELSE IF Given("bitscores") /\ Given("evalues")
        THEN /\ Contains(raised[1].msg, kwargs["bitscores"][1])
             /\ Contains(raised[1].msg, kwargs["evalues"][1])
        ELSE Contains(raised[1].msg, Thresholds(kwargs)[1])

\* C6: for a given database d, if d is a key of the databases section the
\* result has align.database = d and databases unchanged; otherwise it has
\* align.database = "custom" and databases.custom = d, and every other
\* entry of databases is unchanged.
C6_DatabaseResolution ==
    (returned # None /\ Given("database")) =>
        LET d == kwargs["database"][1]
        IN IF d \in DOMAIN base["databases"]
           THEN /\ FieldIs(out, "align", "database", d)
                /\ out["databases"] = base["databases"]
           ELSE /\ FieldIs(out, "align", "database", "custom")
                /\ DOMAIN out["databases"] =
                       DOMAIN base["databases"] \cup {"custom"}
                /\ FieldIs(out, "databases", "custom", d)
                /\ \A k \in DOMAIN base["databases"] \ {"custom"} :
                       out["databases"][k] = base["databases"][k]

C6_Witness ==
    /\ pc = "done"
    /\ base = BaseBatch
    /\ kwargs["database"] = Some("/tmp/my.fasta")
    /\ base["databases"]["custom"] = "/old/own.fa"
    /\ out["databases"]["custom"] = "/tmp/my.fasta"
    /\ out["align"]["database"] = "custom"

\* C7: the second call, made on the output of the first with every
\* override absent, does not fail and returns a configuration equal to that
\* output.
C7_Idempotent ==
    run = 2 =>
        /\ pc # "failed"
        /\ raised = None
        /\ returned # None => out = firstOut

C7_Witness ==
    /\ run = 2
    /\ pc = "done"
    /\ out = firstOut
    /\ base = firstOut
    /\ "protocol" \in DOMAIN out["align"]
    /\ out["align"]["protocol"] = "existing"
    /\ "batch" \in DOMAIN out
    /\ "region" \in DOMAIN out["global"]
    /\ out["global"]["region"] = <<2, 8>>

\* the table of direct-mapped keys: key, section, field
DirectTable ==
    {<<"prefix", "global", "prefix">>,
     <<"protein", "global", "sequence_id">>,
     <<"seqfile", "global", "sequence_file">>,
     <<"iterations", "align", "iterations">>,
     <<"id", "align", "seqid_filter">>,
     <<"seqcov", "align", "minimum_sequence_coverage">>,
     <<"colcov", "align", "minimum_column_coverage">>,
     <<"theta", "couplings", "theta">>,
     <<"plmiter", "couplings", "iterations">>,
     <<"queue", "environment", "queue">>,
     <<"time", "environment", "time">>,
     <<"cores", "environment", "cores">>,
     <<"memory", "environment", "memory">>}

CompositeKeys ==
    {"region", "stages", "database", "bitscores", "evalues", "alignment"}

\* the given direct-mapped keys that write field f of section s
Writers(s, f) == {e \in DirectTable : e[2] = s /\ e[3] = f /\ Given(e[1])}

\* C8: when every composite key is absent, the returned configuration
\* differs from the base only in the destination fields of the given
\* direct-mapped keys, which hold the override value verbatim (also a zero
\* or an empty string); every other field, stages and batch are unchanged.
C8_DirectOnly ==
    (returned # None /\ \A k \in CompositeKeys : ~Given(k)) =>
        /\ DOMAIN out = DOMAIN base
        /\ \A s \in {"databases", "stages", "batch"} : SameSection(out, base, s)
        /\ \A s \in {"global", "align", "couplings", "environment"} :
               \A f \in DOMAIN out[s] \cup DOMAIN base[s] :
                   IF Writers(s, f) # {}
                   THEN /\ f \in DOMAIN out[s]
                        /\ \A e \in Writers(s, f) :
                               out[s][f] = kwargs[e[1]][1]
                   ELSE SameField(out, base, s, f)

C8_Witness ==
    /\ pc = "done"
    /\ run = 1
    /\ base = BaseFull
    /\ \A k \in CompositeKeys : ~Given(k)
    /\ kwargs["iterations"] = Some(0)
    /\ kwargs["prefix"] = Some("")
    /\ out["align"]["iterations"] = 0
    /\ out["global"]["prefix"] = ""
    /\ out["align"]["seqid_filter"] = 90

\* C9: whenever alignment is given and the call returns, the result has
\* align.protocol = "existing" and align.input_alignment equal to the
\* override, with or without seqfile, and a given seqfile is still in
\* global.sequence_file; when alignment is absent, align.protocol is that
\* of the base configuration.
C9_ExistingAlignment ==
    returned # None =>
        IF Given("alignment")
        THEN /\ FieldIs(out, "align", "protocol", "existing")
             /\ FieldIs(out, "align", "input_alignment",
                        kwargs["alignment"][1])
             /\ Given("seqfile") =>
                    FieldIs(out, "global", "sequence_file",
                            kwargs["seqfile"][1])
        ELSE SameField(out, base, "align", "protocol")

C9_Witness ==
    /\ pc = "done"
    /\ base = BaseFull
    /\ kwargs["alignment"] = Some("/path/to.sto")
    /\ kwargs["seqfile"] = Some("q.fa")
    /\ base["align"]["protocol"] = "standard"
    /\ out["align"]["protocol"] = "existing"
    /\ out["global"]["sequence_file"] = "q.fa"

IsRegionFailure(e) ==
    /\ e.type = "InvalidParameterError"
    /\ Len(e.msg) >= 13
    /\ SubSeq(e.msg, 1, 13) =
           <<"R", "e", "g", "i", "o", "n", " ", "s", "t", "r", "i", "n", "g">>

\* C10: the steps run in the order load, simple substitution, alignment
\* shortcut, region, stages, database, thresholds and the call stops at the
\* first failing step: a missing or empty configuration source gives a
\* ResourceError whatever the overrides; a malformed region gives the
\* region failure whatever the thresholds; a failing call returns nothing.
C10_FirstFailureWins ==
    /\ fs.status \in {"missing", "empty"} =>
           /\ pc \in {"load", "failed"}
           /\ pc = "failed" => raised[1].type = "ResourceError"
    /\ (fs.status = "ok" /\ Given("region")
          /\ ~IsStartEnd(kwargs["region"][1])) =>
           /\ ~PastRegion
           /\ pc = "failed" => IsRegionFailure(raised[1])
    /\ pc = "failed" <=> raised # None
    /\ raised # None => returned = None

====
